---- MODULE Spec2Model ----
(***************************************************************************)
(* Model of src/main.py: the FlavorAI chat relay.                          *)
(*                                                                         *)
(* The endpoints are plain `def` handlers, which FastAPI runs on a thread  *)
(* pool, so several chat() calls run at once over the module-level dict    *)
(* chat_sessions.  A thread may be pre-empted between two statements, and  *)
(* inside a statement between the read of a shared value and the write of  *)
(* the value computed from it (`x["k"] += 1`, `x["k"] = x["k"][-n:]`).     *)
(* Every such point is a pc label named after the source line.             *)
(*                                                                         *)
(* Time is in seconds.  A str is a tuple of one-character strings.         *)
(***************************************************************************)
EXTENDS Integers, Sequences, FiniteSets, TLC

VARIABLES
    clock,          \* what datetime.now() returns
    ticks,          \* number of clock advances so far
    nreq,           \* number of chat requests received so far
    chat_sessions,  \* the dict: insertion-ordered <<[sid, obj]>>
    heap,           \* the session dict objects, by object identity
    pc,             \* per thread: the line it is about to execute
    frame,          \* per thread: the locals of chat()/cleanup_sessions()
    burst           \* number of leading requests that arrive as a scripted burst

vars == <<clock, ticks, nreq, chat_sessions, heap, pc, frame, burst>>

----------------------------------------------------------------------------
(* Program constants *)

MAX_HISTORY_LENGTH == 8
SESSION_TIMEOUT_MINUTES == 30
MAX_REQUESTS_PER_MINUTE == 15

\* timedelta(minutes=m), in seconds
timedelta(m) == m * 60

----------------------------------------------------------------------------
(* Bounds of the model *)

MaxRequests == 2        \* free requests, concurrent specification
MaxTicks == 1           \* clock advances, concurrent specification
MaxSeqRequests == 2     \* free requests, sequential specification
MaxSeqTicks == 2        \* clock advances, sequential specification
BurstRequests == 14     \* length of the scripted burst
MaxRollRequests == 2    \* free requests, window-edge specification
MaxRollTicks == 1       \* clock advances, window-edge specification
RollBurstRequests == 15 \* length of the scripted burst, window-edge specification

Threads == {1, 2}
SeqThreads == {1}
TickDeltas == {61, 1801}
SeqTickDeltas == {1, 60, 1800}
RollTickDeltas == {1, 1801}
Messages == {<<>>, <<" ">>, <<"h", " ">>}
RawIds == {<<"a">>, <<" ", "a">>, <<"b">>}
AiTexts == {"r"}
SeqAiTexts == {"r", "s"}
RollAiTexts == {"r"}
BurstMessages == {<<"h", " ">>}
BurstIds == {<<"a">>}
BurstTexts == {"r"}

----------------------------------------------------------------------------
(* str.strip(), datetime.isoformat(), datetime.fromisoformat() *)

Whitespace == {" ", "\t", "\n"}

RECURSIVE lstrip(_)
lstrip(s) ==
    IF s # <<>> /\ Head(s) \in Whitespace THEN lstrip(Tail(s)) ELSE s

RECURSIVE rstrip(_)
rstrip(s) ==
    IF s # <<>> /\ s[Len(s)] \in Whitespace
    THEN rstrip(SubSeq(s, 1, Len(s) - 1))
    ELSE s

\* lines 92-93 without the strip() call
strip_Missing(s) == s

strip(s) == lstrip(rstrip(s))

\* "HH:MM:SS" as <<hours, minutes, seconds>>
isoformat(t) == <<t \div 3600, (t \div 60) % 60, t % 60>>

fromisoformat(s) == s[1] * 3600 + s[2] * 60 + s[3]

----------------------------------------------------------------------------
(* dict and list operations *)

Keys(d) == {d[i].sid : i \in DOMAIN d}

Contains(d, sid) == sid \in Keys(d)

\* the lookup answered with the dict's first value
GetItem_First(d, sid) == d[1].obj

GetItem(d, sid) == d[CHOOSE i \in DOMAIN d : d[i].sid = sid].obj

SetItem(d, sid, obj) ==
    IF Contains(d, sid)
    THEN [i \in DOMAIN d |-> IF d[i].sid = sid THEN [sid |-> sid, obj |-> obj] ELSE d[i]]
    ELSE Append(d, [sid |-> sid, obj |-> obj])

\* del that removes nothing
DelItem_Noop(d, sid) == d

DelItem(d, sid) == LET Keep(e) == e.sid # sid IN SelectSeq(d, Keep)

\* lst[:n] for lst[-n:]
LastN_Head(lst, n) == IF Len(lst) <= n THEN lst ELSE SubSeq(lst, 1, n)

\* lst[-n:]
LastN(lst, n) ==
    IF Len(lst) <= n THEN lst ELSE SubSeq(lst, Len(lst) - n + 1, Len(lst))

\* the objects still referenced from the dict or from a thread's `session`
Live(h, d, fr) ==
    LET used == {d[i].obj : i \in DOMAIN d} \cup {fr[t].session : t \in Threads}
    IN  [o \in (DOMAIN h) \cap used |-> h[o]]

NewObj(h) == CHOOSE n \in 1..(Cardinality(DOMAIN h) + 1) : n \notin DOMAIN h

----------------------------------------------------------------------------
(* Values *)

\* The value of chat_sessions[session_id] built at lines 99-104.  `appended`,
\* `admitted` and `admitted_at` are history variables of the model, not keys
\* of the dict: every turn ever appended to this object's "messages", the
\* number of requests that passed line 119 since request_count was last set
\* to 0, and the `now` of every request that ever passed line 119.
NewSession(la, rr) ==
    [messages |-> <<>>, last_activity |-> la, request_count |-> 0,
     rate_limit_reset |-> rr, appended |-> <<>>, admitted |-> 0,
     admitted_at |-> <<>>]

\* One entry of "messages".  `rid` is the number of the request that built
\* the entry (the identity of the entry, not a key of it).
Turn(role, content, rid) == [role |-> role, content |-> content, rid |-> rid]

NoResult ==
    [status |-> 0, detail |-> "", response |-> "", session_id |-> <<>>,
     timestamp |-> <<0, 0, 0>>]

\* raise HTTPException(status_code, detail), or an exception nothing catches
\* (Starlette answers 500 "Internal Server Error")
HTTPException(status_code, detail) ==
    [NoResult EXCEPT !.status = status_code, !.detail = detail]

Unhandled == HTTPException(500, "Internal Server Error")

\* the body returned at lines 159-163
Reply(ai_response, session_id, now) ==
    [status |-> 200, detail |-> "", response |-> ai_response,
     session_id |-> session_id, timestamp |-> isoformat(now)]

Frame0 ==
    [rid |-> 0,
     cleanup_now |-> 0, it_len |-> 0, it_pos |-> 0, expired |-> <<>>, del_pos |-> 0,
     user_message |-> <<>>, session_id |-> <<>>, absent_or_idle |-> FALSE,
     new_last_activity |-> <<0, 0, 0>>,
     created |-> FALSE,
     session |-> 0, now |-> 0,
     found_start |-> 0, found_count |-> 0,
     loaded_count |-> 0, sliced |-> <<>>,
     prompt |-> <<>>, ai_response |-> "",
     result |-> NoResult]

Idle == "idle"

\* the state after the module is loaded (lines 13-49)
Start ==
    /\ clock = 0
    /\ ticks = 0
    /\ nreq = 0
    /\ chat_sessions = <<>>
    /\ heap = <<>>
    /\ pc = [t \in Threads |-> Idle]
    /\ frame = [t \in Threads |-> Frame0]

Init == Start /\ burst = BurstRequests

\* The scripted burst: the first `burst` requests are non-empty messages for
\* one session, handled one after another with the clock standing still, and
\* the collaborator answers each.  After it the environment is free.
InBurst ==
    /\ burst > 0
    /\ \/ nreq < burst
       \/ \E t \in Threads : pc[t] # Idle /\ frame[t].rid <= burst

----------------------------------------------------------------------------
(* Steps shared by the handlers *)

Goto(t, label) == pc' = [pc EXCEPT ![t] = label]

\* The handler returns or raises: its locals die, the response stays
\* (with the request number and the trimmed session id it was for).
Finish(t, res, h, d) ==
    LET fr == [frame EXCEPT ![t] = [Frame0 EXCEPT !.result = res,
                                                   !.rid = frame[t].rid,
                                                   !.session_id = frame[t].session_id]]
    IN  /\ frame' = fr
        /\ heap' = Live(h, d, fr)
        /\ chat_sessions' = d
        /\ Goto(t, Idle)

\* the session object the thread holds
Session(t) == heap[frame[t].session]

SetField(t, upd) == heap' = [heap EXCEPT ![frame[t].session] = upd]

----------------------------------------------------------------------------
(* The environment: time passes; a client sends GET / *)

Tick(max, deltas) ==
    /\ ~InBurst
    /\ ticks < max
    /\ \E d \in deltas : clock' = clock + d
    /\ ticks' = ticks + 1
    /\ UNCHANGED <<nreq, chat_sessions, heap, pc, frame, burst>>

\* Inside the scripted burst the clock may advance once, by d, between the
\* first request and the second.
BurstTick(d) ==
    /\ InBurst
    /\ nreq = 1
    /\ \A t \in Threads : pc[t] = Idle
    /\ clock = 0
    /\ clock' = clock + d
    /\ UNCHANGED <<ticks, nreq, chat_sessions, heap, pc, frame, burst>>

\* lines 76-82: GET / reads the dict and changes nothing
home == [status |-> "running", version |-> "3.1",
         active_sessions |-> Len(chat_sessions)]

----------------------------------------------------------------------------
(* POST /chat *)

\* line 67 with the timeout taken as hours
Expired_Hours(now, data) ==
    now - fromisoformat(data.last_activity) > timedelta(SESSION_TIMEOUT_MINUTES) * 60

\* line 67 with >= for >
Expired_Ge(now, data) ==
    now - fromisoformat(data.last_activity) >= timedelta(SESSION_TIMEOUT_MINUTES)

\* line 67
Expired(now, data) ==
    now - fromisoformat(data.last_activity) > timedelta(SESSION_TIMEOUT_MINUTES)

\* session_id not in chat_sessions (line 98), or the test of line 67 on it
AbsentOrIdle(now, sid) ==
    \/ ~Contains(chat_sessions, sid)
    \/ Expired(now, heap[GetItem(chat_sessions, sid)])

\* A request arrives, the pool's first free thread starts chat(request) and
\* enters cleanup_sessions(): line 62, and the iterator over
\* chat_sessions.items() of line 65.  The two strip() calls of lines 92-93
\* read only the request, so the frame holds their results from the start.
\* absent_or_idle is a history variable: whether, as the request starts, its
\* id has no session or one whose last_activity is more than 30 minutes old.
Receive(t, max) ==
    /\ pc[t] = Idle
    /\ \A u \in Threads : u < t => pc[u] # Idle
    /\ nreq < burst + max
    /\ InBurst => \A u \in Threads : pc[u] = Idle
    /\ nreq' = nreq + 1
    /\ \E message \in (IF InBurst THEN BurstMessages ELSE Messages),
          session_id \in (IF InBurst THEN BurstIds ELSE RawIds) :
         frame' = [frame EXCEPT ![t] =
                     [Frame0 EXCEPT !.user_message = strip(message),
                                    !.session_id = strip(session_id),
                                    !.rid = nreq + 1,
                                    !.absent_or_idle =
                                        AbsentOrIdle(clock, strip(session_id)),
                                    !.cleanup_now = clock,
                                    !.it_len = Len(chat_sessions)]]
    /\ Goto(t, "L65")
    /\ UNCHANGED <<clock, ticks, chat_sessions, heap, burst>>

\* cleanup_sessions() has returned: lines 95-96
validate(t, d, h) ==
    IF frame[t].user_message = <<>>
    THEN /\ frame' = [frame EXCEPT ![t] =
               [Frame0 EXCEPT !.result = HTTPException(400, "Message cannot be empty"),
                              !.rid = frame[t].rid,
                              !.session_id = frame[t].session_id]]
         /\ heap' = Live(h, d, frame')
         /\ chat_sessions' = d
         /\ Goto(t, Idle)
    ELSE /\ frame' = [frame EXCEPT ![t] =
               [Frame0 EXCEPT !.rid = frame[t].rid,
                              !.user_message = frame[t].user_message,
                              !.session_id = frame[t].session_id,
                              !.absent_or_idle = frame[t].absent_or_idle,
                              !.expired = frame[t].expired]]
         /\ heap' = Live(h, d, frame')
         /\ chat_sessions' = d
         /\ Goto(t, "L98")

\* lines 65-68: one turn of the loop.  The dict iterator raises RuntimeError
\* when the dict has changed size since the iterator was made.
cleanup_scan(t) ==
    /\ pc[t] = "L65"
    /\ IF Len(chat_sessions) # frame[t].it_len
       THEN Finish(t, Unhandled, heap, chat_sessions)
       ELSE IF frame[t].it_pos < Len(chat_sessions)
       THEN LET e == chat_sessions[frame[t].it_pos + 1]
            IN  /\ frame' = [frame EXCEPT
                      ![t].it_pos = @ + 1,
                      ![t].expired = IF Expired(frame[t].cleanup_now, heap[e.obj])
                                     THEN Append(@, e.sid) ELSE @]
                /\ UNCHANGED <<pc, chat_sessions, heap>>
       ELSE IF frame[t].expired # <<>>
       THEN /\ Goto(t, "L71")
            /\ UNCHANGED <<frame, chat_sessions, heap>>
       ELSE validate(t, chat_sessions, heap)
    /\ UNCHANGED <<clock, ticks, nreq, burst>>

\* lines 70-71: one turn of the loop.  del raises KeyError on a missing key.
cleanup_del(t) ==
    /\ pc[t] = "L71"
    /\ LET sid == frame[t].expired[frame[t].del_pos + 1]
       IN  IF ~Contains(chat_sessions, sid)
           THEN Finish(t, Unhandled, heap, chat_sessions)
           ELSE IF frame[t].del_pos + 1 < Len(frame[t].expired)
           THEN /\ chat_sessions' = DelItem(chat_sessions, sid)
                /\ frame' = [frame EXCEPT ![t].del_pos = @ + 1]
                /\ heap' = Live(heap, chat_sessions', frame')
                /\ UNCHANGED pc
           ELSE validate(t, DelItem(chat_sessions, sid), heap)
    /\ UNCHANGED <<clock, ticks, nreq, burst>>

\* line 98
resolve(t) ==
    /\ pc[t] = "L98"
    /\ Goto(t, IF Contains(chat_sessions, frame[t].session_id) THEN "L106" ELSE "L101")
    /\ UNCHANGED <<clock, ticks, nreq, chat_sessions, heap, frame, burst>>

\* line 101
create_last_activity(t) ==
    /\ pc[t] = "L101"
    /\ frame' = [frame EXCEPT ![t].new_last_activity = isoformat(clock)]
    /\ Goto(t, "L103")
    /\ UNCHANGED <<clock, ticks, nreq, chat_sessions, heap, burst>>

\* line 103, and the store of line 99 into chat_sessions[session_id]
create_store(t) ==
    /\ pc[t] = "L103"
    /\ LET o == NewObj(heap)
           h == [x \in (DOMAIN heap) \cup {o} |->
                   IF x = o
                   THEN NewSession(frame[t].new_last_activity, clock)
                   ELSE heap[x]]
       IN  /\ chat_sessions' = SetItem(chat_sessions, frame[t].session_id, o)
           /\ frame' = [frame EXCEPT ![t].created = TRUE,
                                     ![t].new_last_activity = Frame0.new_last_activity]
           /\ heap' = Live(h, chat_sessions', frame')
    /\ Goto(t, "L106")
    /\ UNCHANGED <<clock, ticks, nreq, burst>>

\* line 106: chat_sessions[session_id] raises KeyError on a missing key
lookup(t) ==
    /\ pc[t] = "L106"
    /\ IF ~Contains(chat_sessions, frame[t].session_id)
       THEN Finish(t, Unhandled, heap, chat_sessions)
       ELSE /\ frame' = [frame EXCEPT
                  ![t].session = GetItem(chat_sessions, frame[t].session_id)]
            /\ Goto(t, "L107")
            /\ UNCHANGED <<chat_sessions, heap>>
    /\ UNCHANGED <<clock, ticks, nreq, burst>>

\* line 107
read_now(t) ==
    /\ pc[t] = "L107"
    /\ frame' = [frame EXCEPT ![t].now = clock]
    /\ Goto(t, "L112")
    /\ UNCHANGED <<clock, ticks, nreq, chat_sessions, heap, burst>>

\* line 112 with timedelta(hours=1)
WindowOver_Hour(now, session) == now - session.rate_limit_reset > 3600

\* line 112 with >= for >
WindowOver_Ge(now, session) == now - session.rate_limit_reset >= timedelta(1)

\* line 112
WindowOver(now, session) == now - session.rate_limit_reset > timedelta(1)

\* found_start and found_count are history variables: the session's window
\* start and count as this request found them.
window_test(t) ==
    /\ pc[t] = "L112"
    /\ Goto(t, IF WindowOver(frame[t].now, Session(t)) THEN "L113" ELSE "L116")
    /\ frame' = [frame EXCEPT ![t].found_start = Session(t).rate_limit_reset,
                              ![t].found_count = Session(t).request_count]
    /\ UNCHANGED <<clock, ticks, nreq, chat_sessions, heap, burst>>

\* line 113
window_reset_count(t) ==
    /\ pc[t] = "L113"
    /\ SetField(t, [Session(t) EXCEPT !.request_count = 0, !.admitted = 0])
    /\ Goto(t, "L114")
    /\ UNCHANGED <<clock, ticks, nreq, chat_sessions, frame, burst>>

\* line 114 left out
window_reset_start_Skip(t) ==
    /\ pc[t] = "L114"
    /\ Goto(t, "L116")
    /\ UNCHANGED <<clock, ticks, nreq, chat_sessions, heap, frame, burst>>

\* line 114
window_reset_start(t) ==
    /\ pc[t] = "L114"
    /\ SetField(t, [Session(t) EXCEPT !.rate_limit_reset = frame[t].now])
    /\ Goto(t, "L116")
    /\ UNCHANGED <<clock, ticks, nreq, chat_sessions, frame, burst>>

\* line 116 with > for >=
OverLimit_Gt(session) == session.request_count > MAX_REQUESTS_PER_MINUTE

\* lines 116-117
OverLimit(session) == session.request_count >= MAX_REQUESTS_PER_MINUTE

threshold(t) ==
    /\ pc[t] = "L116"
    /\ IF OverLimit(Session(t))
       THEN Finish(t, HTTPException(429, "Too many requests"), heap, chat_sessions)
       ELSE /\ Goto(t, "L119")
            /\ UNCHANGED <<chat_sessions, heap, frame>>
    /\ UNCHANGED <<clock, ticks, nreq, burst>>

\* line 119, the read of session["request_count"]
count_load(t) ==
    /\ pc[t] = "L119"
    /\ frame' = [frame EXCEPT ![t].loaded_count = Session(t).request_count]
    /\ Goto(t, "L119s")
    /\ UNCHANGED <<clock, ticks, nreq, chat_sessions, heap, burst>>

\* line 119, the store of the sum
count_store(t) ==
    /\ pc[t] = "L119s"
    /\ SetField(t, [Session(t) EXCEPT !.request_count = frame[t].loaded_count + 1,
                                      !.admitted = @ + 1,
                                      !.admitted_at = Append(@, frame[t].now)])
    /\ frame' = [frame EXCEPT ![t].loaded_count = 0]
    /\ Goto(t, "L120")
    /\ UNCHANGED <<clock, ticks, nreq, chat_sessions, burst>>

\* line 120
touch(t) ==
    /\ pc[t] = "L120"
    /\ SetField(t, [Session(t) EXCEPT !.last_activity = isoformat(frame[t].now)])
    /\ Goto(t, "L123")
    /\ UNCHANGED <<clock, ticks, nreq, chat_sessions, frame, burst>>

\* session["messages"].append(turn), lines 123-126 and 152-155
AppendTurn(session, turn) ==
    [session EXCEPT !.messages = Append(@, turn), !.appended = Append(@, turn)]

\* lines 128 and 157 with the slice one turn too long
Truncated_OffByOne(session) == LastN(session.messages, MAX_HISTORY_LENGTH + 1)

\* the right-hand side of lines 128 and 157
Truncated(session) == LastN(session.messages, MAX_HISTORY_LENGTH)

append_user(t) ==
    /\ pc[t] = "L123"
    /\ SetField(t, AppendTurn(Session(t),
                              Turn("user", frame[t].user_message, frame[t].rid)))
    /\ Goto(t, "L128")
    /\ UNCHANGED <<clock, ticks, nreq, chat_sessions, frame, burst>>

\* line 128, the slice
user_slice(t) ==
    /\ pc[t] = "L128"
    /\ frame' = [frame EXCEPT ![t].sliced = Truncated(Session(t))]
    /\ Goto(t, "L128s")
    /\ UNCHANGED <<clock, ticks, nreq, chat_sessions, heap, burst>>

\* line 128, the store
user_store(t) ==
    /\ pc[t] = "L128s"
    /\ SetField(t, [Session(t) EXCEPT !.messages = frame[t].sliced])
    /\ frame' = [frame EXCEPT ![t].sliced = <<>>]
    /\ Goto(t, "L131")
    /\ UNCHANGED <<clock, ticks, nreq, chat_sessions, burst>>

\* lines 131-147 with the argument list built before line 123
call_Stale(t) ==
    /\ pc[t] = "L131"
    /\ frame' = [frame EXCEPT ![t].prompt =
                    SubSeq(Session(t).messages, 1, Len(Session(t).messages) - 1)]
    /\ Goto(t, "L147")
    /\ UNCHANGED <<clock, ticks, nreq, chat_sessions, heap, burst>>

\* lines 131-147: the argument list is built and the call is made
call(t) ==
    /\ pc[t] = "L131"
    /\ frame' = [frame EXCEPT ![t].prompt = Session(t).messages]
    /\ Goto(t, "L147")
    /\ UNCHANGED <<clock, ticks, nreq, chat_sessions, heap, burst>>

\* lines 147-149: the collaborator answers
call_returns(t, texts) ==
    /\ pc[t] = "L147"
    /\ \E text \in (IF InBurst THEN BurstTexts ELSE texts) :
         frame' = [frame EXCEPT ![t].ai_response = text, ![t].prompt = <<>>]
    /\ Goto(t, "L152")
    /\ UNCHANGED <<clock, ticks, nreq, chat_sessions, heap, burst>>

\* lines 165-167 with the user turn taken back
call_raises_Rollback(t) ==
    /\ pc[t] = "L147"
    /\ ~InBurst
    /\ Finish(t, HTTPException(500, "AI service error"),
              [heap EXCEPT ![frame[t].session].messages =
                  SubSeq(@, 1, Len(@) - 1)],
              chat_sessions)
    /\ UNCHANGED <<clock, ticks, nreq, burst>>

\* lines 131-149 raise; lines 165-167
call_raises(t) ==
    /\ pc[t] = "L147"
    /\ ~InBurst
    /\ Finish(t, HTTPException(500, "AI service error"), heap, chat_sessions)
    /\ UNCHANGED <<clock, ticks, nreq, burst>>

append_assistant(t) ==
    /\ pc[t] = "L152"
    /\ SetField(t, AppendTurn(Session(t),
                              Turn("assistant", frame[t].ai_response, frame[t].rid)))
    /\ Goto(t, "L157")
    /\ UNCHANGED <<clock, ticks, nreq, chat_sessions, frame, burst>>

\* line 157, the slice
assistant_slice(t) ==
    /\ pc[t] = "L157"
    /\ frame' = [frame EXCEPT ![t].sliced = Truncated(Session(t))]
    /\ Goto(t, "L157s")
    /\ UNCHANGED <<clock, ticks, nreq, chat_sessions, heap, burst>>

\* line 157, the store; lines 159-163
assistant_store(t) ==
    /\ pc[t] = "L157s"
    /\ Finish(t, Reply(frame[t].ai_response, frame[t].session_id, frame[t].now),
              [heap EXCEPT ![frame[t].session] =
                  [Session(t) EXCEPT !.messages = frame[t].sliced]],
              chat_sessions)
    /\ UNCHANGED <<clock, ticks, nreq, burst>>

cleanup_sessions(t) == cleanup_scan(t) \/ cleanup_del(t)

chat(t, texts) ==
    \/ cleanup_sessions(t)
    \/ resolve(t)
    \/ create_last_activity(t)
    \/ create_store(t)
    \/ lookup(t)
    \/ read_now(t)
    \/ window_test(t)
    \/ window_reset_count(t)
    \/ window_reset_start(t)
    \/ threshold(t)
    \/ count_load(t)
    \/ count_store(t)
    \/ touch(t)
    \/ append_user(t)
    \/ user_slice(t)
    \/ user_store(t)
    \/ call(t)
    \/ call_returns(t, texts)
    \/ call_raises(t)
    \/ append_assistant(t)
    \/ assistant_slice(t)
    \/ assistant_store(t)

----------------------------------------------------------------------------
(* Specifications *)

\* requests served by the thread pool, any interleaving
Next ==
    \/ Tick(MaxTicks, TickDeltas)
    \/ \E t \in Threads : Receive(t, MaxRequests)
    \/ \E t \in Threads : chat(t, AiTexts)

Spec == Init /\ [][Next]_vars

\* requests handled one after another
SeqNext ==
    \/ Tick(MaxSeqTicks, SeqTickDeltas)
    \/ \E t \in SeqThreads : Receive(t, MaxSeqRequests)
    \/ \E t \in SeqThreads : chat(t, SeqAiTexts)

SeqInit == Start /\ burst \in {0, BurstRequests}

SeqSpec == SeqInit /\ [][SeqNext]_vars

\* requests handled one after another, the burst split by the 60 s of one
\* rate-limit window
RollNext ==
    \/ BurstTick(60)
    \/ Tick(MaxRollTicks, RollTickDeltas)
    \/ \E t \in SeqThreads : Receive(t, MaxRollRequests)
    \/ \E t \in SeqThreads : chat(t, RollAiTexts)

RollInit == Start /\ burst = RollBurstRequests

RollSpec == RollInit /\ [][RollNext]_vars

\* The steps of chat() that depend on the thread alone: all but the end of
\* the blocking call of lines 131-147, which is the collaborator's to take.
OwnStep(t) == pc[t] # "L147" /\ chat(t, SeqAiTexts)

\* requests handled one after another; a thread that can run does run, and
\* nothing is assumed of the collaborator
FairSeqSpec == SeqSpec /\ \A t \in SeqThreads : WF_vars(OwnStep(t))

----------------------------------------------------------------------------
(* Properties *)

Stored == {chat_sessions[i].obj : i \in DOMAIN chat_sessions}

Quiescent == \A t \in Threads : pc[t] = Idle

\* thread t takes a step of chat()
Steps(t) == pc'[t] # pc[t] \/ frame'[t] # frame[t]

\* C1: whenever every chat request received so far has finished (with 400,
\* 429, 500 or 200), every session in the store holds at most
\* MAX_HISTORY_LENGTH = 8 turns.
C1_HistoryBounded ==
    Quiescent => \A o \in Stored : Len(heap[o].messages) <= 8

\* a session that was full takes two more answered requests, all finished
C1_Witness ==
    /\ Quiescent
    /\ nreq >= burst + 2
    /\ \E o \in Stored : Len(heap[o].messages) = 8 /\ Len(heap[o].appended) >= 30

\* request_count is the number admitted since the last reset, at most 15
C2_Counts ==
    \A o \in DOMAIN heap :
        heap[o].request_count = heap[o].admitted /\ heap[o].request_count <= 15

\* the step of lines 116-117
C2_Step ==
    \A t \in Threads :
        (pc[t] = "L116" /\ Steps(t)) =>
            IF Session(t).request_count < 15
            THEN /\ pc'[t] = "L119"
                 /\ heap' = heap
            ELSE /\ pc'[t] = Idle
                 /\ frame'[t].result.status = 429
                 /\ frame[t].now - Session(t).rate_limit_reset <= 60
                 /\ Session(t).admitted = 15
                 /\ heap' = heap
                 /\ chat_sessions' = chat_sessions

\* C2: with requests handled one after another, a request that reaches the
\* rate check while request_count < 15 is admitted; one that reaches it at
\* request_count = 15 has now - window_start <= 60 s, is rejected with 429
\* after exactly 15 admissions in this window, and leaves the store, the
\* history and request_count as they were.  request_count is the number of
\* requests admitted in the current window and never exceeds 15.
C2_RateLimit == []C2_Counts /\ [][C2_Step]_vars

\* the 16th request of a window has just been rejected
C2_Witness ==
    \E t \in Threads :
        /\ pc[t] = Idle
        /\ frame[t].result.status = 429
        /\ frame[t].rid = 16
        /\ Contains(chat_sessions, frame[t].session_id)
        /\ heap[GetItem(chat_sessions, frame[t].session_id)].request_count = 15
        /\ Len(heap[GetItem(chat_sessions, frame[t].session_id)].appended) = 30

\* the request found window_start more than 60 s before its own time
Late(t) == frame[t].now - frame[t].found_start > 60

Admitted == {"L120", "L123", "L128", "L128s", "L131", "L147", "L152", "L157", "L157s"}

C3_State ==
    \A t \in Threads :
        /\ (pc[t] = "L116" /\ Late(t)) => Session(t).request_count = 0
        /\ (pc[t] \in Admitted /\ Late(t)) =>
              /\ Session(t).request_count = 1
              /\ Session(t).rate_limit_reset = frame[t].now

C3_Step ==
    \A t \in Threads :
        (pc[t] = "L116" /\ Late(t) /\ Steps(t)) => pc'[t] = "L119"

\* C3: with requests handled one after another, a request that finds the
\* session's window_start more than 60 s before its own time has the count
\* reset to 0 before the threshold is tested, is admitted whatever the count
\* was, and after its admission window_start is its own time and
\* request_count is 1.
C3_WindowReset == []C3_State /\ [][C3_Step]_vars

\* a request that found the count at 15 has been admitted in a fresh window
C3_Witness ==
    \E t \in Threads :
        /\ pc[t] = "L120"
        /\ Late(t)
        /\ frame[t].found_count = 15
        /\ Session(t).request_count = 1

\* thread t leaves cleanup_sessions() by its return
SweepReturns(t) ==
    /\ pc[t] \in {"L65", "L71"}
    /\ pc'[t] \notin {"L65", "L71"}
    /\ frame'[t].result # Unhandled

IdleFor(now, o) == now - fromisoformat(heap[o].last_activity)

\* the step on which the sweep returns
C4_Step ==
    \A t \in Threads :
        SweepReturns(t) =>
            /\ \A i \in DOMAIN chat_sessions' :
                  frame[t].cleanup_now
                    - fromisoformat(heap'[chat_sessions'[i].obj].last_activity) <= 30 * 60
            /\ \A i \in DOMAIN chat_sessions :
                  IdleFor(frame[t].cleanup_now, chat_sessions[i].obj) > 30 * 60
                    => ~Contains(chat_sessions', chat_sessions[i].sid)
            /\ Len(chat_sessions') = frame[t].it_len - Len(frame[t].expired)
            /\ home' = [home EXCEPT !.active_sessions = Len(chat_sessions')]

\* C4: with requests handled one after another, when the sweep of a chat
\* request (any message, any session id) returns, no session whose
\* last_activity is more than 30 minutes before the sweep's time is in the
\* store, every session the sweep found so is gone, and the count GET /
\* reports is the count before the sweep less the sessions removed.
C4_SweepEvicts == [][C4_Step]_vars

\* the sweep of the only request after the burst has emptied the store
C4_Witness ==
    /\ burst > 0
    /\ nreq = burst + 1
    /\ pc[1] = "L98"
    /\ frame[1].expired = <<<<"a">>>>
    /\ home.active_sessions = 0

AllBlank(s) == \A i \in DOMAIN s : s[i] \in Whitespace

\* a step of a request with a blank message changes nothing
C5_Original_Step ==
    \A t \in Threads :
        (pc[t] # Idle /\ AllBlank(frame[t].user_message) /\ Steps(t)) =>
            /\ pc'[t] = Idle => frame'[t].result.status = 400
            /\ chat_sessions' = chat_sessions
            /\ heap' = heap

\* C5 as claimed: a chat request whose message is empty after trimming ends
\* with 400 and none of its steps changes the store or any session.
C5_Original == [][C5_Original_Step]_vars

\* a step of a request with a blank message changes only what the sweep removes
C5_Step ==
    \A t \in Threads :
        (pc[t] # Idle /\ AllBlank(frame[t].user_message) /\ Steps(t)) =>
            /\ pc'[t] \in {Idle, "L65", "L71"}
            /\ pc'[t] = Idle => frame'[t].result.status = 400
            /\ Keys(chat_sessions') \subseteq Keys(chat_sessions)
            /\ \A i \in DOMAIN chat_sessions :
                  LET e == chat_sessions[i]
                  IN  IF Contains(chat_sessions', e.sid)
                      THEN /\ GetItem(chat_sessions', e.sid) = e.obj
                           /\ heap'[e.obj] = heap[e.obj]
                      ELSE IdleFor(frame[t].cleanup_now, e.obj) > 30 * 60

\* C5 as amended: with requests handled one after another, a chat request
\* whose message is empty after trimming ends with 400, creates no session,
\* and changes no field of any session that stays in the store; the only
\* change it makes is its sweep's removal of sessions whose last_activity is
\* more than 30 minutes before the sweep's time.
C5_EmptyRejected == [][C5_Step]_vars

\* the only request after the burst was blank, for an id never seen: it got
\* 400, its id has no session, and its sweep removed the burst's session
C5_Witness ==
    /\ burst > 0
    /\ nreq = burst + 1
    /\ pc[1] = Idle
    /\ frame[1].result.status = 400
    /\ frame[1].session_id = <<"b">>
    /\ chat_sessions = <<>>

Min(a, b) == IF a <= b THEN a ELSE b

\* the last n elements of seq, oldest first
Newest(seq, n) == [i \in 1..n |-> seq[Len(seq) - n + i]]

\* the thread is not between an append and the store of its slice
Settled(t) == pc[t] \notin {"L128", "L128s", "L157", "L157s"}

\* C6: with requests handled one after another, between two statements that
\* append a turn the history of every session is the most recent min(k, 8)
\* of the k turns ever appended to it, in their order; 10 answered messages
\* leave exactly 8 turns.
C6_BoundedFifo ==
    (\A t \in Threads : Settled(t)) =>
        \A o \in DOMAIN heap :
            /\ heap[o].messages = Newest(heap[o].appended, Min(Len(heap[o].appended), 8))
            /\ Len(heap[o].appended) = 20 => Len(heap[o].messages) = 8

\* ten messages answered: turns 13..20 of the 20 appended are the history
C6_Witness ==
    /\ nreq = 10
    /\ Quiescent
    /\ \E o \in Stored :
          /\ Len(heap[o].appended) = 20
          /\ Len(heap[o].messages) = 8
          /\ heap[o].messages[1] = Turn("user", <<"h">>, 7)
          /\ heap[o].messages[8] = Turn("assistant", "r", 10)

\* C7 as claimed: of two requests in flight for one session id with the
\* clock standing still (no session can expire), at most one has created a
\* session object, both hold the same object, and once both are past the
\* rate check the object's request_count is the number of requests admitted.
C7_OneSession ==
    \A t1, t2 \in Threads :
        (/\ t1 # t2
         /\ ticks = 0
         /\ pc[t1] # Idle /\ pc[t2] # Idle
         /\ frame[t1].session_id = frame[t2].session_id) =>
            /\ ~(frame[t1].created /\ frame[t2].created)
            /\ (frame[t1].session # 0 /\ frame[t2].session # 0)
                  => frame[t1].session = frame[t2].session
            /\ (pc[t1] \in Admitted /\ pc[t2] \in Admitted)
                  => Session(t1).request_count = Session(t1).admitted

\* the step on which the completion call raises
C8_Step ==
    \A t \in Threads :
        (pc[t] = "L147" /\ pc'[t] = Idle) =>
            LET after == heap'[frame[t].session]
            IN  /\ frame'[t].result.status = 500
                /\ frame'[t].result.detail = "AI service error"
                /\ heap' = heap
                /\ after.messages # <<>>
                /\ after.messages[Len(after.messages)]
                      = [role |-> "user", content |-> frame[t].user_message,
                         rid |-> frame[t].rid]
                /\ \A i \in DOMAIN after.appended :
                      ~(after.appended[i].rid = frame[t].rid
                          /\ after.appended[i].role = "assistant")

\* C8: with requests handled one after another, when the completion call of
\* an admitted request raises, the request ends with 500 and the fixed
\* detail, no session changes, the newest turn of its session is the user
\* turn this request appended, and no assistant turn of this request was
\* ever appended.
C8_UpstreamFailure == [][C8_Step]_vars

\* a request has ended with the generic 500 and its user turn is the newest
\* turn of a full history
C8_Witness ==
    \E t \in Threads :
        /\ pc[t] = Idle
        /\ frame[t].result.status = 500
        /\ frame[t].result.detail = "AI service error"
        /\ Contains(chat_sessions, frame[t].session_id)
        /\ LET m == heap[GetItem(chat_sessions, frame[t].session_id)].messages
           IN  /\ Len(m) = 8
               /\ m[8].role = "user"
               /\ m[8].rid = frame[t].rid

\* the call in progress, and the first request answered
C9_State ==
    \A t \in Threads :
        /\ pc[t] = "L147" =>
              LET p == frame[t].prompt
                  k == Len(Session(t).appended)
              IN  /\ p = Session(t).messages
                  /\ Len(p) <= 8
                  /\ p = Newest(Session(t).appended, Min(k, 8))
                  /\ p[Len(p)] = [role |-> "user", content |-> frame[t].user_message,
                                  rid |-> frame[t].rid]
                  /\ nreq = 1 => Len(p) = 1
        /\ (pc[t] = Idle /\ nreq = 1 /\ frame[t].result.status = 200) =>
              /\ Keys(chat_sessions) = {frame[t].session_id}
              /\ heap[GetItem(chat_sessions, frame[t].session_id)].messages
                    = << [role |-> "user", content |-> <<"h">>, rid |-> 1],
                         [role |-> "assistant", content |-> frame[t].result.response,
                          rid |-> 1] >>

\* the step of lines 157-163
C9_Returned ==
    \A t \in Threads :
        (pc[t] = "L157s" /\ pc'[t] = Idle) =>
            /\ frame'[t].result.status = 200
            /\ frame'[t].result.response = frame[t].ai_response
            /\ frame'[t].result.session_id = frame[t].session_id
            /\ LET m == heap'[frame[t].session].messages
               IN  m[Len(m)] = [role |-> "assistant", content |-> frame[t].ai_response,
                                rid |-> frame[t].rid]

\* C9: with requests handled one after another, while the completion call
\* of a request is in progress its argument is the session's history, which
\* is the newest min(k, 8) of the k turns appended so far and ends with this
\* request's user turn; the first request on a fresh store calls with one
\* turn, and once answered its session holds exactly its user turn and the
\* assistant turn with the returned text, which is the response.
C9_Collaborator == []C9_State /\ [][C9_Returned]_vars

\* the first request on a fresh store was answered "s"
C9_Witness ==
    /\ nreq = 1
    /\ pc[1] = Idle
    /\ frame[1].result.status = 200
    /\ frame[1].result.response = "s"
    /\ Len(heap[GetItem(chat_sessions, frame[1].session_id)].messages) = 2

\* the statements between the first read and the last write of a
\* read-modify-write of request_count, and between an append and its slice
CountSection == {"L113", "L114", "L116", "L119", "L119s"}
HistorySection == {"L128", "L128s", "L157", "L157s"}

\* C10 as claimed: two requests holding the same session object are never
\* both inside the read-modify-write of request_count, and never both
\* between an append to the history and the store of its truncation.
C10_Serialized ==
    \A t1, t2 \in Threads :
        (/\ t1 # t2
         /\ frame[t1].session # 0
         /\ frame[t1].session = frame[t2].session) =>
            /\ ~(pc[t1] \in CountSection /\ pc[t2] \in CountSection)
            /\ ~(pc[t1] \in HistorySection /\ pc[t2] \in HistorySection)

\* C11 as claimed: under any interleaving of sweeps with other requests, no
\* request ends with an exception escaping from the sweep's scan (lines
\* 65-68), from the sweep's del (lines 70-71) or from the lookup of a
\* session the request found present (lines 98-106).
C11_SweepSafe ==
    \A t \in Threads : frame[t].result # Unhandled

\* the request reached the rate check exactly 60 s after window_start
AtRollover(t) == frame[t].now - frame[t].found_start = 60

\* such a request is admitted
C12_Original_Step ==
    \A t \in Threads :
        (pc[t] = "L116" /\ AtRollover(t) /\ Steps(t)) => pc'[t] = "L119"

\* C12 as claimed: a request that reaches the rate check exactly 60 s after
\* the session's window_start is admitted, whatever request_count is.
C12_Original == [][C12_Original_Step]_vars

\* such a request is tested against the count and the window it found
C12_Step ==
    \A t \in Threads :
        (pc[t] = "L116" /\ AtRollover(t) /\ Steps(t)) =>
            /\ Session(t).request_count = frame[t].found_count
            /\ Session(t).rate_limit_reset = frame[t].found_start
            /\ IF frame[t].found_count = 15
               THEN /\ pc'[t] = Idle
                    /\ frame'[t].result.status = 429
                    /\ heap' = heap
               ELSE pc'[t] = "L119"

\* C12 as amended: with requests handled one after another, a request that
\* reaches the rate check exactly 60 s after window_start gets no fresh
\* quota: the window test is strict, so the threshold is tested against the
\* count and the window the request found, and at request_count = 15 it is
\* rejected with 429 and changes nothing.
C12_NoResetAtSixty == [][C12_Step]_vars

\* the 15th request was admitted at second 60 of the window that began at 0,
\* and the 16th, at the same second, has been rejected
C12_Witness ==
    \E t \in Threads :
        /\ pc[t] = Idle
        /\ frame[t].result.status = 429
        /\ frame[t].rid = 16
        /\ clock = 60
        /\ Contains(chat_sessions, frame[t].session_id)
        /\ LET s == heap[GetItem(chat_sessions, frame[t].session_id)]
           IN  /\ s.rate_limit_reset = 0
               /\ s.last_activity = isoformat(60)
               /\ s.request_count = 15

\* the stage of chat() a line belongs to: 1 sweep and validation, 2 session
\* resolution, 3 rate check, 4 user-turn append, 5 external call,
\* 6 assistant-turn append
Stage(l) ==
    CASE l \in {"L65", "L71"} -> 1
      [] l \in {"L98", "L101", "L103", "L106", "L107"} -> 2
      [] l \in {"L112", "L113", "L114", "L116", "L119", "L119s", "L120"} -> 3
      [] l \in {"L123", "L128", "L128s"} -> 4
      [] l \in {"L131", "L147"} -> 5
      [] l \in {"L152", "L157", "L157s"} -> 6

\* the four outcomes of a request
Outcomes ==
    {[status |-> 400, detail |-> "Message cannot be empty"],
     [status |-> 429, detail |-> "Too many requests"],
     [status |-> 500, detail |-> "AI service error"],
     [status |-> 200, detail |-> ""]}

\* a finished request has one of the four outcomes
C13_Ended ==
    \A t \in Threads :
        (pc[t] = Idle /\ frame[t].rid > 0) =>
            [status |-> frame[t].result.status,
             detail |-> frame[t].result.detail] \in Outcomes

\* a step stays in its stage, enters the next one, or ends the request with
\* the outcome of its stage
C13_Order ==
    \A t \in Threads :
        (pc[t] # Idle /\ Steps(t)) =>
            IF pc'[t] = Idle
            THEN frame'[t].result.status =
                    CASE Stage(pc[t]) = 1 -> 400
                      [] pc[t] = "L116" -> 429
                      [] pc[t] = "L147" -> 500
                      [] pc[t] = "L157s" -> 200
                      [] OTHER -> 0
            ELSE /\ Stage(pc'[t]) \in {Stage(pc[t]), Stage(pc[t]) + 1}
                 /\ pc'[t] = "L152" => pc[t] = "L147"

\* C13 as claimed: under any interleaving every chat request ends with 400
\* (empty), 429 (rate-limited), 500 with the generic detail (upstream error)
\* or 200, having passed sweep, validation, session resolution, rate check,
\* user-turn append, external call and assistant-turn append in this order,
\* the assistant turn only after the call returned.
C13_FourOutcomes == []C13_Ended /\ [][C13_Order]_vars

\* what a request that started with its id absent or idle sees
C14_State ==
    \A t \in Threads :
        frame[t].absent_or_idle =>
            /\ pc[t] = "L123" =>
                  Session(t).messages = <<>> /\ Session(t).appended = <<>>
            /\ pc[t] = "L147" =>
                  frame[t].prompt = <<Turn("user", frame[t].user_message, frame[t].rid)>>
            /\ pc[t] \in Admitted => Session(t).request_count = 1

\* such a request creates its session and is admitted
C14_Step ==
    \A t \in Threads :
        (frame[t].absent_or_idle /\ Steps(t)) =>
            /\ pc[t] = "L98" => pc'[t] = "L101"
            /\ pc[t] = "L116" => pc'[t] = "L119"

\* C14: with requests handled one after another, a non-empty message whose
\* id, as the request starts, has no session or one idle for more than 30
\* minutes gets a new session: the request creates it and is admitted, the
\* history is empty (and was never otherwise) before the request's user turn,
\* the collaborator is called with that one turn, and request_count is 1
\* after admission.
C14_FreshSession == []C14_State /\ [][C14_Step]_vars

\* the burst's session was idle for 1801 s; the next request under its id is
\* at the collaborator with its own turn only
C14_Witness ==
    \E t \in Threads :
        /\ pc[t] = "L147"
        /\ frame[t].absent_or_idle
        /\ frame[t].rid = 15
        /\ frame[t].session_id = <<"a">>
        /\ frame[t].expired = <<<<"a">>>>
        /\ frame[t].prompt = <<Turn("user", <<"h">>, 15)>>

\* C15 as claimed: in every state of every interleaving, a session's history
\* holds at most MAX_HISTORY_LENGTH + 1 = 9 turns.
C15_AtMostNine ==
    \A o \in DOMAIN heap : Len(heap[o].messages) <= MAX_HISTORY_LENGTH + 1

C17_Rolling ==
    \A o \in DOMAIN heap :
        LET at == heap[o].admitted_at
        IN  \A i \in DOMAIN at :
                i + MAX_REQUESTS_PER_MINUTE <= Len(at) =>
                    at[i + MAX_REQUESTS_PER_MINUTE] - at[i] >= 60

\* C17 as amended: with requests handled one after another, the window is a
\* fixed period counted from window_start: at most 15 requests are admitted
\* between two resets of a session's window, each of them at window_start
\* or at most 60 s after it.  (An interval of 60 s that spans a reset can
\* hold more than 15 admitted requests.)
C17_FixedWindow ==
    \A o \in DOMAIN heap :
        LET s == heap[o]
            n == Len(s.admitted_at)
        IN  /\ s.admitted <= MAX_REQUESTS_PER_MINUTE
            /\ s.admitted <= n
            /\ \A i \in (n - s.admitted + 1)..n :
                  s.admitted_at[i] - s.rate_limit_reset \in 0..60

\* one request admitted at second 0, fourteen at second 60 in the same
\* window, two at second 61 in the next: sixteen within two seconds
C17_Witness ==
    \E o \in Stored :
        /\ Len(heap[o].admitted_at) = 17
        /\ heap[o].admitted_at[1] = 0
        /\ heap[o].admitted_at[2] = 60
        /\ heap[o].admitted_at[15] = 60
        /\ heap[o].admitted_at[17] = 61
        /\ heap[o].rate_limit_reset = 61
        /\ heap[o].request_count = 2

\* C18 as claimed: in every state of every interleaving, the number of
\* requests admitted since the last reset of a session's window is at most
\* 15, and so is the session's request_count.
C18_Bounded ==
    \A o \in DOMAIN heap :
        /\ heap[o].admitted <= MAX_REQUESTS_PER_MINUTE
        /\ heap[o].request_count <= MAX_REQUESTS_PER_MINUTE

Last(seq) == seq[Len(seq)]

\* last_activity is the time of the session's most recent admitted request,
\* from line 120 of that request on
C19_State ==
    /\ \A t \in Threads :
          pc[t] \in Admitted \ {"L120"} =>
              Session(t).last_activity = isoformat(frame[t].now)
    /\ \A o \in DOMAIN heap :
          (/\ heap[o].admitted_at # <<>>
           /\ \A t \in Threads : ~(pc[t] = "L120" /\ frame[t].session = o)) =>
              fromisoformat(heap[o].last_activity) = Last(heap[o].admitted_at)

\* a sweep removes only sessions last admitted more than 30 minutes before
\* it; a request that ends with 400 or 429 changes no last_activity
C19_Step ==
    \A t \in Threads :
        /\ (pc[t] \in {"L65", "L71"} /\ Steps(t)) =>
              \A i \in DOMAIN chat_sessions :
                  LET e == chat_sessions[i]
                  IN  ~Contains(chat_sessions', e.sid) =>
                          /\ IdleFor(frame[t].cleanup_now, e.obj) > 30 * 60
                          /\ heap[e.obj].admitted_at # <<>>
                          /\ frame[t].cleanup_now - Last(heap[e.obj].admitted_at) > 30 * 60
        /\ (pc[t] # Idle /\ pc'[t] = Idle /\ frame'[t].result.status \in {400, 429}) =>
              \A o \in DOMAIN heap' :
                  /\ o \in DOMAIN heap
                  /\ heap'[o].last_activity = heap[o].last_activity

\* C19: with requests handled one after another, a sweep removes a session
\* only when its last_activity, which is the time of its most recent
\* admitted request (also of one whose external call failed), is more than
\* 30 minutes before the sweep's time; a request rejected with 400 or 429
\* changes no session's last_activity.
C19_KeptWhileActive == []C19_State /\ [][C19_Step]_vars

\* a sweep that began exactly 30 minutes after the most recent admitted
\* request of the burst's session has tested the session and not listed it
C19_Witness ==
    \E t \in Threads :
        /\ pc[t] = "L65"
        /\ frame[t].cleanup_now = 30 * 60
        /\ frame[t].it_pos = 1
        /\ frame[t].expired = <<>>
        /\ Contains(chat_sessions, <<"a">>)
        /\ LET s == heap[GetItem(chat_sessions, <<"a">>)]
           IN  Len(s.admitted_at) = 14 /\ Last(s.admitted_at) = 0

\* what a step of a request does to the sessions stored under other ids:
\* nothing, or, in its sweep, the removal of one that is expired
C20_Step ==
    \A t \in Threads :
        (pc[t] # Idle /\ Steps(t)) =>
            \A i \in DOMAIN chat_sessions :
                LET e == chat_sessions[i]
                IN  e.sid # frame[t].session_id =>
                        IF Contains(chat_sessions', e.sid)
                        THEN /\ GetItem(chat_sessions', e.sid) = e.obj
                             /\ heap'[e.obj] = heap[e.obj]
                        ELSE /\ pc[t] \in {"L65", "L71"}
                             /\ IdleFor(frame[t].cleanup_now, e.obj) > 30 * 60

\* C20: with requests handled one after another, no step of a chat request
\* for id A changes the history, request_count, window_start or
\* last_activity of a session stored under another id B; the one thing it
\* can do to B is remove it in its sweep, when B's last_activity is more
\* than 30 minutes before the sweep's time.
C20_OtherSessions == [][C20_Step]_vars

\* a request for "b" has been answered; the burst's session "a" is stored
\* beside it with its 8 turns and its count of 14
C20_Witness ==
    \E t \in Threads :
        /\ pc[t] = Idle
        /\ frame[t].result.status = 200
        /\ frame[t].session_id = <<"b">>
        /\ Keys(chat_sessions) = {<<"a">>, <<"b">>}
        /\ Len(heap[GetItem(chat_sessions, <<"b">>)].messages) = 2
        /\ LET a == heap[GetItem(chat_sessions, <<"a">>)]
           IN  Len(a.messages) = 8 /\ a.request_count = 14

====
